---- MODULE Spec2Model ----
(***************************************************************************)
(* Model of the effects of photon (src/crate/src/effects.rs).              *)
(*                                                                         *)
(* One behaviour is one call of one effect on one image: Init builds the   *)
(* caller's PhotonImage, each action is one whole effect call, and the     *)
(* state after the call records how the call ended (returned or panicked), *)
(* the caller's buffer, the buffer local to the call, and the value it     *)
(* returned.                                                               *)
(*                                                                         *)
(* Numbers.  u8 arithmetic is written with its saturation or wrap where    *)
(* the code has one.  The f64 values of kuwahara (window variance) and of  *)
(* halftone (luma) are modelled by exact rationals over a fixed            *)
(* denominator (k*k and 4000), compared by their numerators.  2^32 is      *)
(* beyond TLC's integers: the u32 word is modelled with modulus WrapBase   *)
(* in place of 2^32, so a wrapped difference is WrapBase - (b - a), which  *)
(* like 2^32 - (b - a) exceeds every coordinate and extent of the model,   *)
(* and WrapBase - 1 stands for u32::MAX (its low byte is 255 as well).     *)
(***************************************************************************)
EXTENDS Integers, Sequences, FiniteSets

(* ------------------------------ bounds -------------------------------- *)

\* Largest image width and height of the small-image family.
MaxW == 4
MaxH == 3
\* The number of leading pixels (in buffer order) whose colour is free;
\* the pixels after them are dark.
MaxFree == 5
\* Largest kuwahara parameter num.
MaxNum == 2
\* Largest num_strips, and the largest extent (along the strips' axis) of
\* an image of the strip family.
MaxStrips == 3
MaxExtent == 6
\* Largest width and height of the family of images with an interior for
\* offset (both at least 10).
MaxBig == 12

(* ------------------------------ inputs -------------------------------- *)

\* The two colours an input image is made of, <<r, g, b, a>>.  Their lumas
\* (0 and 243.724) put blocks of 0..4 light pixels in each of the five
\* halftone bands; the light colour has a channel in 129..254 and channels
\* that saturate under brightness 50 or 100.
Dark == <<0, 0, 0, 255>>
Light == <<252, 248, 200, 128>>

\* Channel indices passed to offset and multiple_offsets: the three valid
\* ones and an invalid one.
Channels == {0, 1, 2, 3}
\* Pixel offsets passed to offset and multiple_offsets.
Offsets == {0, 1}
\* Brightness values passed to inc_brightness.
Brightnesses == {0, 50, 100}

WrapBase == 2^30
\* Pixel offsets passed to offset on the images with an interior: small
\* ones and u32::MAX.
WideOffsets == {0, 1, 2, WrapBase - 1}
\* Channel offsets passed to tint: none, one that saturates only the
\* light colour's red, one above a byte, and u32::MAX.
TintOffsets == {0, 3, 300, WrapBase - 1}

VARIABLES
    width,       \* PhotonImage.width of the caller's image
    height,      \* PhotonImage.height
    raw_pixels,  \* PhotonImage.raw_pixels of the caller's image
    orig,        \* raw_pixels as they were before the call
    call,        \* the call made: [op |-> ..., ...arguments]
    status,      \* "ready" | "returned" | "panicked"; "pass1" | "pass2"
                 \* inside a kuwahara call followed iteration by iteration
    panic,       \* why the call panicked, "" when it did not
    img,         \* the call's local image buffer (when the call ended,
                 \* or as it is inside a call followed by iteration)
    ret,         \* the PhotonImage the call returned, <<>> when none
    reads,       \* the coordinates the call passed to get_pixel
    work_pixels, \* kuwahara's statistics buffer, while the call is followed
                 \* loop iteration by loop iteration (<<>> otherwise)
    pos          \* the iterations the loop in progress has made

vars == <<width, height, raw_pixels, orig, call, status, panic, img, ret, reads,
          work_pixels, pos>>

(* --------------------------- pixel buffer ----------------------------- *)

\* Byte offset (0-based) of channel c of pixel (x, y) in a buffer of width W.
Idx(W, x, y, c) == 4 * (y * W + x) + c

\* Channel c of pixel (x, y).
Chan(buf, W, x, y, c) == buf[Idx(W, x, y, c) + 1]

InBounds(W, H, x, y) == x >= 0 /\ x < W /\ y >= 0 /\ y < H

GetPixel(buf, W, x, y) ==
    <<Chan(buf, W, x, y, 0), Chan(buf, W, x, y, 1),
      Chan(buf, W, x, y, 2), Chan(buf, W, x, y, 3)>>

PutPixel(buf, W, x, y, px) ==
    [i \in DOMAIN buf |->
        IF i - 1 >= Idx(W, x, y, 0) /\ i - 1 <= Idx(W, x, y, 3)
        THEN px[i - Idx(W, x, y, 0)]
        ELSE buf[i]]

\* helpers::dyn_image_from_raw: an RGBA8 image over a copy of the raw bytes.
DynImageFromRaw(buf) == buf

\* ImageIterator::new(w, h): the coordinates of [0,w) x [0,h), row-major.
ImageIterator(w, h) ==
    [i \in 1..(w * h) |-> <<(i - 1) % w, (i - 1) \div w>>]

\* The number of pixels of a raw buffer.
NumPixels(buf) == Len(buf) \div 4

\* The image of width W and height H whose pixels with index in S are Light.
MakeImage(W, H, S) ==
    [i \in 1..(4 * W * H) |->
        IF ((i - 1) \div 4) \in S THEN Light[((i - 1) % 4) + 1]
        ELSE Dark[((i - 1) % 4) + 1]]

\* What a call hands back: how it ended, the caller's buffer, the local
\* buffer, the returned image and the coordinates read.
Outcome(st, why, raw, local, r, rd) ==
    [status |-> st, panic |-> why, raw_pixels |-> raw, img |-> local,
     ret |-> r, reads |-> rd]

(* ----------------------------- solarize ------------------------------- *)

\* One iteration of solarize's loop, at byte offset i.
SolarizeStep(buf, i) ==
    IF 200 - buf[i + 1] > 0
    THEN [buf EXCEPT ![i + 1] = 200 - buf[i + 1]]
    ELSE buf

\* The loop `for i in (0..end).step_by(4)`, from offset i on.
RECURSIVE SolarizeLoop(_, _, _)
SolarizeLoop(buf, i, end) ==
    IF i >= end THEN buf
    ELSE SolarizeLoop(SolarizeStep(buf, i), i + 4, end)

solarize(buf) ==
    Outcome("returned", "", SolarizeLoop(buf, 0, Len(buf) - 4), <<>>, <<>>, {})

\* One iteration of solarize_retimg's loop, at pixel (x, y) of the copy.
SolarizeRetimgStep(buf, W, x, y) ==
    LET px == GetPixel(buf, W, x, y)
        px2 == IF 200 - px[1] > 0 THEN [px EXCEPT ![1] = 200 - px[1]] ELSE px
    IN PutPixel(buf, W, x, y, px2)

\* The loop over ImageIterator::with_dimension, from its n-th coordinate on.
RECURSIVE SolarizeRetimgLoop(_, _, _, _)
SolarizeRetimgLoop(buf, W, coords, n) ==
    IF n > Len(coords) THEN buf
    ELSE SolarizeRetimgLoop(
             SolarizeRetimgStep(buf, W, coords[n][1], coords[n][2]),
             W, coords, n + 1)

\* The source is only read; the result is a new PhotonImage.
solarize_retimg(buf, W, H) ==
    LET local == SolarizeRetimgLoop(DynImageFromRaw(buf), W, ImageIterator(W, H), 1)
    IN Outcome("returned", "", buf, local,
               [raw_pixels |-> local, width |-> W, height |-> H], {})

(* --------------------------- inc_brightness --------------------------- *)

\* One iteration of inc_brightness's loop, at byte offset i.  The green
\* branch that saturates writes raw_pixels[1], not raw_pixels[i + 1].
IncBrightnessStep(buf, i, brightness) ==
    LET r_val == buf[i + 1]
        g_val == buf[i + 2]
        b_val == buf[i + 3]
        b1 == IF r_val <= 255 - brightness
              THEN [buf EXCEPT ![i + 1] = buf[i + 1] + brightness]
              ELSE [buf EXCEPT ![i + 1] = 255]
        b2 == IF g_val <= 255 - brightness
              THEN [b1 EXCEPT ![i + 2] = b1[i + 2] + brightness]
              ELSE [b1 EXCEPT ![2] = 255]
        b3 == IF b_val <= 255 - brightness
              THEN [b2 EXCEPT ![i + 3] = b2[i + 3] + brightness]
              ELSE [b2 EXCEPT ![i + 3] = 255]
    IN b3

RECURSIVE IncBrightnessLoop(_, _, _, _)
IncBrightnessLoop(buf, i, end, brightness) ==
    IF i >= end THEN buf
    ELSE IncBrightnessLoop(IncBrightnessStep(buf, i, brightness), i + 4, end,
                           brightness)

inc_brightness(buf, brightness) ==
    Outcome("returned", "",
            IncBrightnessLoop(buf, 0, Len(buf) - 4, brightness), <<>>, <<>>, {})

(* ------------------------------ primary ------------------------------- *)

\* One iteration of primary's loop, at byte offset i: the three values
\* are read at offsets 0, 1, 2; the blue test that succeeds assigns g_val.
PrimaryStep(buf, i) ==
    LET r0 == buf[1]
        g0 == buf[2]
        b0 == buf[3]
        r_val == IF r0 > 128 THEN 255 ELSE 0
        g1 == IF g0 > 128 THEN 255 ELSE 0
        g_val == IF b0 > 128 THEN 255 ELSE g1
        b_val == IF b0 > 128 THEN b0 ELSE 0
    IN [buf EXCEPT ![i + 1] = r_val, ![i + 2] = g_val, ![i + 3] = b_val]

RECURSIVE PrimaryLoop(_, _, _)
PrimaryLoop(buf, i, end) ==
    IF i >= end THEN buf
    ELSE PrimaryLoop(PrimaryStep(buf, i), i + 4, end)

primary(buf) ==
    Outcome("returned", "", PrimaryLoop(buf, 0, Len(buf) - 4), <<>>, <<>>, {})

(* ------------------------------ halftone ------------------------------ *)

\* 1000 times the luma `r * 0.299 + g * 0.587 + b * 0.114` of a pixel.
Gray(px) == 299 * px[1] + 587 * px[2] + 114 * px[3]

\* HalftonePx1 painting px1 white in the band above 32.
HalftonePx1_band32(sat4000) ==
    IF sat4000 > 32 * 4000 THEN 255 ELSE 0

\* The value the band of `sat` gives the three colour channels of px1;
\* sat4000 is 4000 * sat, the sum of the four lumas times 1000.
HalftonePx1(sat4000) ==
    IF sat4000 > 200 * 4000 THEN 255
    ELSE IF sat4000 > 159 * 4000 THEN 255
    ELSE IF sat4000 > 95 * 4000 THEN 255
    ELSE IF sat4000 > 32 * 4000 THEN 0
    ELSE 0

\* The coordinates one iteration passes to get_pixel, in the order of the
\* four calls.
HalftoneReads(x, y) == <<<<x, y>>, <<x, y + 1>>, <<x + 1, y>>, <<x + 1, y + 1>>>>

\* The block origins visited: x in (0..W).step_by(2) outside,
\* y in (0..H).step_by(2) inside.
HalftoneBlocks(W, H) ==
    LET ny == (H + 1) \div 2
        nx == (W + 1) \div 2
    IN [i \in 1..(nx * ny) |-> <<2 * ((i - 1) \div ny), 2 * ((i - 1) % ny)>>]

\* One iteration on the state st = [buf, reads, ok]: the four reads (the
\* first one out of bounds panics, after being attempted), then the write
\* of px1 alone.
HalftoneStep(st, W, H, x, y) ==
    LET rd == HalftoneReads(x, y)
        bad == {k \in 1..4 : ~InBounds(W, H, rd[k][1], rd[k][2])}
        \* reads made: all four, or those up to the first that fails
        made == IF bad = {} THEN {rd[k] : k \in 1..4}
                ELSE {rd[k] : k \in {j \in 1..4 : \A b \in bad : j <= b}}
        px1 == GetPixel(st.buf, W, x, y)
        px2 == GetPixel(st.buf, W, x, y + 1)
        px3 == GetPixel(st.buf, W, x + 1, y)
        px4 == GetPixel(st.buf, W, x + 1, y + 1)
        v == HalftonePx1(Gray(px1) + Gray(px2) + Gray(px3) + Gray(px4))
    IN IF bad # {}
       THEN [buf |-> st.buf, reads |-> st.reads \cup made, ok |-> FALSE]
       ELSE [buf |-> PutPixel(st.buf, W, x, y, <<v, v, v, px1[4]>>),
             reads |-> st.reads \cup made, ok |-> TRUE]

RECURSIVE HalftoneLoop(_, _, _, _, _)
HalftoneLoop(st, W, H, blocks, n) ==
    IF n > Len(blocks) \/ ~st.ok THEN st
    ELSE HalftoneLoop(HalftoneStep(st, W, H, blocks[n][1], blocks[n][2]),
                      W, H, blocks, n + 1)

\* halftone takes its PhotonImage by value and returns nothing: the buffer
\* it assigns at the end is its own, so the caller's bytes are as before.
halftone(buf, W, H) ==
    LET st == HalftoneLoop([buf |-> DynImageFromRaw(buf), reads |-> {}, ok |-> TRUE],
                           W, H, HalftoneBlocks(W, H), 1)
    IN IF st.ok
       THEN Outcome("returned", "", buf, st.buf, <<>>, st.reads)
       ELSE Outcome("panicked", "index out of bounds", buf, st.buf, <<>>, st.reads)

(* --------------------------- strip overlays --------------------------- *)

White == <<255, 255, 255, 255>>

\* draw_filled_rect_mut: every pixel of the image inside the rectangle at
\* (left, top) of size rw x rh takes the colour.
DrawFilledRect(buf, W, H, left, top, rw, rh, color) ==
    [i \in DOMAIN buf |->
        LET p == (i - 1) \div 4
            x == p % W
            y == p \div W
        IN IF x >= left /\ x < left + rw /\ y >= top /\ y < top + rh
           THEN color[((i - 1) % 4) + 1]
           ELSE buf[i]]

\* num_strips is a u8: for 1 <= num_strips <= 127, the values the
\* overlays are called with here, `(num_strips * 2) - 1` does not overflow.
\* The loop `for i in 1..num_strips` of horizontal_strips on the state
\* st = [buf, y_pos, ok]; Rect::of_size panics on a zero size.
RECURSIVE HorizontalLoop(_, _, _, _, _, _)
HorizontalLoop(st, W, H, i, num_strips, height_strip) ==
    IF i >= num_strips \/ ~st.ok THEN st
    ELSE IF W = 0 \/ height_strip = 0
    THEN [st EXCEPT !.ok = FALSE]
    ELSE HorizontalLoop(
             [buf |-> DrawFilledRect(st.buf, W, H, 0, st.pos + height_strip,
                                     W, height_strip, White),
              pos |-> i * (height_strip * 2), ok |-> TRUE],
             W, H, i + 1, num_strips, height_strip)

\* horizontal_strips dividing the height by 2n and not by 2n - 1.
horizontal_strips_even(buf, W, H, num_strips) ==
    LET total_strips == num_strips * 2
        height_strip == H \div total_strips
        st == HorizontalLoop([buf |-> DynImageFromRaw(buf), pos |-> 0, ok |-> TRUE],
                             W, H, 1, num_strips, height_strip)
    IN IF st.ok
       THEN Outcome("returned", "", st.buf, st.buf, <<>>, {})
       ELSE Outcome("panicked", "rect size", buf, st.buf, <<>>, {})

horizontal_strips(buf, W, H, num_strips) ==
    LET total_strips == (num_strips * 2) - 1
        height_strip == H \div total_strips
        st == HorizontalLoop([buf |-> DynImageFromRaw(buf), pos |-> 0, ok |-> TRUE],
                             W, H, 1, num_strips, height_strip)
    IN IF st.ok
       THEN Outcome("returned", "", st.buf, st.buf, <<>>, {})
       ELSE Outcome("panicked", "rect size", buf, st.buf, <<>>, {})

RECURSIVE VerticalLoop(_, _, _, _, _, _)
VerticalLoop(st, W, H, i, num_strips, width_strip) ==
    IF i >= num_strips \/ ~st.ok THEN st
    ELSE IF H = 0 \/ width_strip = 0
    THEN [st EXCEPT !.ok = FALSE]
    ELSE VerticalLoop(
             [buf |-> DrawFilledRect(st.buf, W, H, st.pos + width_strip, 0,
                                     width_strip, H, White),
              pos |-> i * (width_strip * 2), ok |-> TRUE],
             W, H, i + 1, num_strips, width_strip)

vertical_strips(buf, W, H, num_strips) ==
    LET total_strips == (num_strips * 2) - 1
        width_strip == W \div total_strips
        st == VerticalLoop([buf |-> DynImageFromRaw(buf), pos |-> 0, ok |-> TRUE],
                           W, H, 1, num_strips, width_strip)
    IN IF st.ok
       THEN Outcome("returned", "", st.buf, st.buf, <<>>, {})
       ELSE Outcome("panicked", "rect size", buf, st.buf, <<>>, {})

(* --------------------------- u32 arithmetic --------------------------- *)

\* a - b on u32 in a build without overflow checks (with them, a < b
\* panics): the wrapped difference stands for 2^32 - (b - a).
WrapSub(a, b) == IF a >= b THEN a - b ELSE WrapBase - (b - a)

\* a + b on u32 overflows when the sum leaves the word: a build with
\* overflow checks panics there, one without them keeps the wrapped sum.
AddOverflows(a, b) == a + b >= WrapBase
WrapAdd(a, b) == IF a + b >= WrapBase THEN a + b - WrapBase ELSE a + b

(* ------------------------------- offset ------------------------------- *)

\* `x + offset < width - 1 && y + offset < height - 1`, evaluated left to
\* right: "overflow" when an addition that is evaluated overflows in a
\* build with overflow checks, else the truth value.
OffsetInside(W, H, x, y, off, checked) ==
    IF AddOverflows(x, off) /\ checked THEN "overflow"
    ELSE IF ~(WrapAdd(x, off) < W - 1) THEN "false"
    ELSE IF AddOverflows(y, off) /\ checked THEN "overflow"
    ELSE IF WrapAdd(y, off) < H - 1 THEN "true" ELSE "false"

\* One iteration of offset's loops, at pixel (x, y) of the copy st.buf.
OffsetStep(st, W, H, x, y, channel_index, off, checked) ==
    LET px == GetPixel(st.buf, W, x, y)
        inside == OffsetInside(W, H, x, y, off, checked)
        px2 == IF inside = "true"
               THEN [px EXCEPT ![channel_index + 1] =
                        GetPixel(st.buf, W, WrapAdd(x, off),
                                 WrapAdd(y, off))[channel_index + 1]]
               ELSE px
    IN IF inside = "overflow"
       THEN [st EXCEPT !.ok = FALSE]
       ELSE [st EXCEPT !.buf = PutPixel(st.buf, W, x, y, px2)]

\* The pixels `for x in 0..xr { for y in 0..yr` visits: x outside.
OffsetCoords(xr, yr) ==
    [i \in 1..(xr * yr) |-> <<(i - 1) \div yr, (i - 1) % yr>>]

RECURSIVE OffsetLoop(_, _, _, _, _, _, _, _)
OffsetLoop(st, W, H, coords, n, channel_index, off, checked) ==
    IF n > Len(coords) \/ ~st.ok THEN st
    ELSE OffsetLoop(
             OffsetStep(st, W, H, coords[n][1], coords[n][2], channel_index,
                        off, checked),
             W, H, coords, n + 1, channel_index, off, checked)

\* offset, in a build with (checked) or without overflow checks.  The
\* loops run on a copy, assigned to the caller's image after them.
\* `width - 10` is evaluated once; `height - 10` at each outer iteration.
offset(buf, W, H, channel_index, off, checked) ==
    LET xr == WrapSub(W, 10)
        yr == WrapSub(H, 10)
        local == DynImageFromRaw(buf)
    IN IF channel_index > 2
       THEN Outcome("panicked", "invalid channel", buf, <<>>, <<>>, {})
       ELSE IF W < 10 /\ checked
       THEN Outcome("panicked", "subtract with overflow", buf, local, <<>>, {})
       ELSE IF xr = 0
       THEN Outcome("returned", "", local, local, <<>>, {})
       ELSE IF H < 10 /\ checked
       THEN Outcome("panicked", "subtract with overflow", buf, local, <<>>, {})
       ELSE IF yr = 0
       THEN Outcome("returned", "", local, local, <<>>, {})
       ELSE IF xr > W \/ yr > H
       \* a wrapped range walks get_pixel off the image
       THEN Outcome("panicked", "index out of bounds", buf, local, <<>>, {})
       ELSE LET done == OffsetLoop([buf |-> local, ok |-> TRUE], W, H,
                                   OffsetCoords(xr, yr), 1, channel_index,
                                   off, checked)
            IN IF done.ok
               THEN Outcome("returned", "", done.buf, done.buf, <<>>, {})
               ELSE Outcome("panicked", "add with overflow", buf, done.buf,
                            <<>>, {})

(* -------------------------- multiple_offsets -------------------------- *)

\* One iteration of multiple_offsets' loop, at pixel (x, y) of the copy.
MultipleOffsetsStep(buf, W, H, x, y, off, channel_index, channel_index2) ==
    LET px == GetPixel(buf, W, x, y)
        px2 == IF x + off < W - 1 /\ y + off < H - 1
               THEN [px EXCEPT ![channel_index + 1] =
                        GetPixel(buf, W, x + off, y)[channel_index + 1]]
               ELSE px
        px3 == IF x - off > 0 /\ y - off > 0
               THEN [px2 EXCEPT ![channel_index2 + 1] =
                        GetPixel(buf, W, x - off, y)[channel_index2 + 1]]
               ELSE px2
    IN PutPixel(buf, W, x, y, px3)

RECURSIVE MultipleOffsetsLoop(_, _, _, _, _, _, _, _)
MultipleOffsetsLoop(buf, W, H, coords, n, off, channel_index, channel_index2) ==
    IF n > Len(coords) THEN buf
    ELSE MultipleOffsetsLoop(
             MultipleOffsetsStep(buf, W, H, coords[n][1], coords[n][2], off,
                                 channel_index, channel_index2),
             W, H, coords, n + 1, off, channel_index, channel_index2)

\* multiple_offsets without the check of its second channel index.
multiple_offsets_one_check(buf, W, H, off, channel_index, channel_index2) ==
    IF channel_index > 2
    THEN Outcome("panicked", "invalid channel", buf, <<>>, <<>>, {})
    ELSE LET done == MultipleOffsetsLoop(DynImageFromRaw(buf), W, H,
                                         ImageIterator(W, H), 1, off,
                                         channel_index, channel_index2)
         IN Outcome("returned", "", done, done, <<>>, {})

multiple_offsets(buf, W, H, off, channel_index, channel_index2) ==
    IF channel_index > 2
    THEN Outcome("panicked", "invalid channel", buf, <<>>, <<>>, {})
    ELSE IF channel_index2 > 2
    THEN Outcome("panicked", "invalid channel", buf, <<>>, <<>>, {})
    ELSE LET done == MultipleOffsetsLoop(DynImageFromRaw(buf), W, H,
                                         ImageIterator(W, H), 1, off,
                                         channel_index, channel_index2)
         IN Outcome("returned", "", done, done, <<>>, {})

(* ------------------------------ kuwahara ------------------------------ *)

\* The sum of f over the finite set S.
RECURSIVE SumOver(_, _)
SumOver(f, S) ==
    IF S = {} THEN 0
    ELSE LET e == CHOOSE e \in S : TRUE IN f[e] + SumOver(f, S \ {e})

\* The offsets (i, j) of a window: ImageIterator::new(num + 1, num + 1).
Window(num) == (0..num) \X (0..num)

\* calc_avg summing over 0..num exclusive and not 0..num + 1.
calc_avg_short(buf, W, x, y, num) ==
    LET k == num + 1
        win == (0..(num - 1)) \X (0..(num - 1))
        sum(c) == SumOver([d \in win |-> Chan(buf, W, x + d[1], y + d[2], c)], win)
    IN <<sum(0) \div (k * k), sum(1) \div (k * k), sum(2) \div (k * k)>>

\* calc_avg: the mean of each colour channel over the window at (x, y),
\* `sum as f64 / k / k` cast to u8 (the cast truncates; the quotient of a
\* sum of at most k*k bytes is below 256).
calc_avg(buf, W, x, y, num) ==
    LET k == num + 1
        sum(c) == SumOver([d \in Window(num) |-> Chan(buf, W, x + d[1], y + d[2], c)],
                          Window(num))
    IN <<sum(0) \div (k * k), sum(1) \div (k * k), sum(2) \div (k * k)>>

\* calc_var: var_r + var_g + var_b, each a sum of squared differences
\* divided by k and by k again; the value is kept as its numerator over
\* k*k (what the f64 holds exactly when k is a power of two; for other k
\* the rounding of the three quotients is left out).
calc_var(buf, W, x, y, num, avg) ==
    LET sq(c) == SumOver(
                     [d \in Window(num) |->
                         (Chan(buf, W, x + d[1], y + d[2], c) - avg[c + 1]) *
                         (Chan(buf, W, x + d[1], y + d[2], c) - avg[c + 1])],
                     Window(num))
    IN sq(0) + sq(1) + sq(2)

\* work_pixel_at: the index of anchor (x, y) in work_pixels.
work_pixel_at(x, y, W, num) == y * (W - num) + x

\* Pass 1: work_pixels, one (avg.r, avg.g, avg.b, var) per anchor of
\* ImageIterator::new(width - num, height - num), indexed from 0.
Pass1(buf, W, H, num) ==
    [n \in 0..((W - num) * (H - num) - 1) |->
        LET x == n % (W - num)
            y == n \div (W - num)
            avg == calc_avg(buf, W, x, y, num)
        IN <<avg[1], avg[2], avg[3], calc_var(buf, W, x, y, num, avg)>>]

\* Option::None.
None == <<>>

\* min_tuple keeping the right operand on a tie (`<` for `<=`).
min_tuple_strict(lhs, rhs) ==
    IF lhs # None /\ rhs # None THEN (IF lhs[4] < rhs[4] THEN lhs ELSE rhs)
    ELSE IF lhs # None THEN lhs
    ELSE IF rhs # None THEN rhs
    ELSE None

\* min_tuple: of two present statistics the left one unless the right one
\* has the smaller variance; a present one over an absent one.
min_tuple(lhs, rhs) ==
    IF lhs # None /\ rhs # None THEN (IF lhs[4] <= rhs[4] THEN lhs ELSE rhs)
    ELSE IF lhs # None THEN lhs
    ELSE IF rhs # None THEN rhs
    ELSE None

\* The four candidates of pixel (x, y) in pass 2; wd and hd are the
\* values of `width - num` and `height - num`.
top_left(work, W, x, y, num, wd, hd) ==
    IF x >= num /\ y >= num
    THEN work[work_pixel_at(x - num, y - num, W, num)] ELSE None

top_right(work, W, x, y, num, wd, hd) ==
    IF x < wd /\ y >= num
    THEN work[work_pixel_at(x, y - num, W, num)] ELSE None

bottom_left(work, W, x, y, num, wd, hd) ==
    IF x >= num /\ y < hd
    THEN work[work_pixel_at(x - num, y, W, num)] ELSE None

bottom_right(work, W, x, y, num, wd, hd) ==
    IF x < wd /\ y < hd
    THEN work[work_pixel_at(x, y, W, num)] ELSE None

\* The statistic pass 2 chooses for pixel (x, y), None when no candidate
\* is valid.
Choose(work, W, x, y, num, wd, hd) ==
    min_tuple(min_tuple(top_left(work, W, x, y, num, wd, hd),
                        top_right(work, W, x, y, num, wd, hd)),
              min_tuple(bottom_left(work, W, x, y, num, wd, hd),
                        bottom_right(work, W, x, y, num, wd, hd)))

\* Pass 2 on the state st = [buf, ok], from the n-th coordinate on: the
\* chosen means become the pixel's r, g, b; `expect` panics on None.
RECURSIVE Pass2(_, _, _, _, _, _, _, _)
Pass2(st, work, W, coords, n, num, wd, hd) ==
    IF n > Len(coords) \/ ~st.ok THEN st
    ELSE LET x == coords[n][1]
             y == coords[n][2]
             pixel == Choose(work, W, x, y, num, wd, hd)
             px == GetPixel(st.buf, W, x, y)
         IN IF pixel = None
            THEN [st EXCEPT !.ok = FALSE]
            ELSE Pass2([buf |-> PutPixel(st.buf, W, x, y,
                                         <<pixel[1], pixel[2], pixel[3], px[4]>>),
                        ok |-> TRUE],
                       work, W, coords, n + 1, num, wd, hd)

\* kuwahara, in a build with (checked) or without overflow checks, where
\* the allocation of an oversized work_pixels succeeds (alloc_ok) or
\* aborts.  With num above a dimension `width - num` or `height - num`
\* overflows; wrapped, pass 1 starts at anchor (0, 0) unless one of the
\* two ranges is empty, and its window leaves the image.  Every write is
\* to the copy, assigned to the caller's image after pass 2.
kuwahara(buf, W, H, num, checked, alloc_ok) ==
    LET wd == WrapSub(W, num)
        hd == WrapSub(H, num)
        local == DynImageFromRaw(buf)
    IN IF (num > W \/ num > H) /\ checked
       THEN Outcome("panicked", "subtract with overflow", buf, local, <<>>, {})
       ELSE IF (num > W \/ num > H) /\ wd > 0 /\ hd > 0 /\ ~alloc_ok
       THEN Outcome("panicked", "allocation", buf, local, <<>>, {})
       ELSE IF wd > 0 /\ hd > 0 /\ (num >= W \/ num >= H)
       THEN Outcome("panicked", "index out of bounds", buf, local, <<>>, {})
       ELSE LET work == IF wd > 0 /\ hd > 0 THEN Pass1(local, W, H, num) ELSE <<>>
                st == Pass2([buf |-> local, ok |-> TRUE], work, W,
                            ImageIterator(W, H), 1, num, wd, hd)
            IN IF st.ok
               THEN Outcome("returned", "", st.buf, st.buf, <<>>, {})
               ELSE Outcome("panicked", "unable to choose pixel", buf, st.buf,
                            <<>>, {})

\* The entry pass 1 stores for anchor (x, y): (avg.r, avg.g, avg.b, var).
Pass1Entry(buf, W, x, y, num) ==
    LET avg == calc_avg(buf, W, x, y, num)
    IN <<avg[1], avg[2], avg[3], calc_var(buf, W, x, y, num, avg)>>

\* The loop of pass 1 ending one anchor early.
Pass1Done_one_short(n, wd, hd) == n >= wd * hd - 1

\* The loop of pass 1 over ImageIterator::new(wd, hd) has ended after n
\* iterations.
Pass1Done(n, wd, hd) == n >= wd * hd

\* `vec![(0, 0, 0, 0.0); wd * hd]`, indexed from 0.
NewWorkPixels(wd, hd) == [n \in 0..(wd * hd - 1) |-> <<0, 0, 0, 0>>]

(* -------------------------------- tint -------------------------------- *)

\* A channel after tint: `if val as u32 + offset < 255 { val as u8 +
\* offset as u8 } else { 255 }`, or -1 when the u32 addition overflows in
\* a build with overflow checks.  `as u8` keeps the low byte; the u8
\* addition can only overflow after a wrapped u32 sum.
TintChannel(val, off, checked) ==
    IF AddOverflows(val, off) /\ checked THEN -1
    ELSE IF WrapAdd(val, off) < 255
    THEN (val + (off % 256)) % 256
    ELSE 255

\* One iteration of tint's loop, at pixel (x, y) of the copy st.buf.
TintStep(st, W, x, y, r_offset, g_offset, b_offset, checked) ==
    LET px == GetPixel(st.buf, W, x, y)
        r == TintChannel(px[1], r_offset, checked)
        g == TintChannel(px[2], g_offset, checked)
        b == TintChannel(px[3], b_offset, checked)
    IN IF r < 0 \/ g < 0 \/ b < 0
       THEN [st EXCEPT !.ok = FALSE]
       ELSE [st EXCEPT !.buf = PutPixel(st.buf, W, x, y, <<r, g, b, px[4]>>)]

RECURSIVE TintLoop(_, _, _, _, _, _, _, _)
TintLoop(st, W, coords, n, r_offset, g_offset, b_offset, checked) ==
    IF n > Len(coords) \/ ~st.ok THEN st
    ELSE TintLoop(
             TintStep(st, W, coords[n][1], coords[n][2], r_offset, g_offset,
                      b_offset, checked),
             W, coords, n + 1, r_offset, g_offset, b_offset, checked)

\* tint, in a build with (checked) or without overflow checks.
tint(buf, W, H, r_offset, g_offset, b_offset, checked) ==
    LET done == TintLoop([buf |-> DynImageFromRaw(buf), ok |-> TRUE], W,
                         ImageIterator(W, H), 1, r_offset, g_offset,
                         b_offset, checked)
    IN IF done.ok
       THEN Outcome("returned", "", done.buf, done.buf, <<>>, {})
       ELSE Outcome("panicked", "add with overflow", buf, done.buf, <<>>, {})

(* ------------------------- the state machine -------------------------- *)

\* The pixel indices that may be light in an image of n pixels.
FreePixels(n) == 0..((IF n < MaxFree THEN n ELSE MaxFree) - 1)

\* The images of the given dimensions.
ImagesOf(dims) ==
    UNION { { [w |-> d[1], h |-> d[2], px |-> MakeImage(d[1], d[2], S)] :
                S \in SUBSET FreePixels(d[1] * d[2]) } : d \in dims }

SmallImages == ImagesOf((1..MaxW) \X (1..MaxH))

\* Images one or two pixels across and up to MaxExtent along the other axis.
StripImages ==
    ImagesOf(((1..2) \X (1..MaxExtent)) \cup ((1..MaxExtent) \X (1..2)))

\* The pixels <<x, y>> that may be light in an image of the big family.
CornerPixels == {<<0, 0>>, <<1, 0>>, <<1, 1>>, <<2, 2>>}

\* Images at least 10 pixels wide and high, dark outside CornerPixels.
BigImages ==
    UNION { { [w |-> d[1], h |-> d[2],
               px |-> MakeImage(d[1], d[2], {c[2] * d[1] + c[1] : c \in S})] :
                S \in SUBSET CornerPixels } :
            d \in (10..MaxBig) \X (10..MaxBig) }

\* The images of tint: up to 2x2, every pixel free.
TintImages == ImagesOf((1..2) \X (1..2))

Start(im) ==
    /\ width = im.w
    /\ height = im.h
    /\ raw_pixels = im.px
    /\ orig = im.px
    /\ call = [op |-> "none"]
    /\ status = "ready"
    /\ panic = ""
    /\ img = <<>>
    /\ ret = <<>>
    /\ reads = {}
    /\ work_pixels = <<>>
    /\ pos = 0

Init == \E im \in SmallImages : Start(im)

\* The call c ends as outcome o.
Finish(c, o) ==
    /\ call' = c
    /\ status' = o.status
    /\ panic' = o.panic
    /\ raw_pixels' = o.raw_pixels
    /\ img' = o.img
    /\ ret' = o.ret
    /\ reads' = o.reads
    /\ UNCHANGED <<width, height, orig, work_pixels, pos>>

Solarize ==
    /\ status = "ready"
    /\ Finish([op |-> "solarize"], solarize(raw_pixels))

SolarizeRetimg ==
    /\ status = "ready"
    /\ Finish([op |-> "solarize_retimg"],
              solarize_retimg(raw_pixels, width, height))

IncBrightness ==
    /\ status = "ready"
    /\ \E d \in Brightnesses :
         Finish([op |-> "inc_brightness", brightness |-> d],
                inc_brightness(raw_pixels, d))

Primary ==
    /\ status = "ready"
    /\ Finish([op |-> "primary"], primary(raw_pixels))

Halftone ==
    /\ status = "ready"
    /\ Finish([op |-> "halftone"], halftone(raw_pixels, width, height))

HorizontalStrips ==
    /\ status = "ready"
    /\ \E n \in 1..MaxStrips :
         Finish([op |-> "horizontal_strips", num_strips |-> n],
                horizontal_strips(raw_pixels, width, height, n))

VerticalStrips ==
    /\ status = "ready"
    /\ \E n \in 1..MaxStrips :
         Finish([op |-> "vertical_strips", num_strips |-> n],
                vertical_strips(raw_pixels, width, height, n))

Offset ==
    /\ status = "ready"
    /\ \E c \in Channels, off \in Offsets, checked \in BOOLEAN :
         Finish([op |-> "offset", channel_index |-> c, offset |-> off],
                offset(raw_pixels, width, height, c, off, checked))

\* offset with the wide offsets.
OffsetWide ==
    /\ status = "ready"
    /\ \E c \in Channels, off \in WideOffsets, checked \in BOOLEAN :
         Finish([op |-> "offset", channel_index |-> c, offset |-> off],
                offset(raw_pixels, width, height, c, off, checked))

MultipleOffsets ==
    /\ status = "ready"
    /\ \E c1 \in Channels, c2 \in Channels, off \in Offsets :
         Finish([op |-> "multiple_offsets", offset |-> off,
                 channel_index |-> c1, channel_index2 |-> c2],
                multiple_offsets(raw_pixels, width, height, off, c1, c2))

Tint ==
    /\ status = "ready"
    /\ \E dr \in TintOffsets, dg \in TintOffsets, db \in TintOffsets,
          checked \in BOOLEAN :
         Finish([op |-> "tint", r_offset |-> dr, g_offset |-> dg,
                 b_offset |-> db],
                tint(raw_pixels, width, height, dr, dg, db, checked))

Kuwahara ==
    /\ status = "ready"
    /\ \E num \in 0..MaxNum, checked \in BOOLEAN, alloc_ok \in BOOLEAN :
         Finish([op |-> "kuwahara", num |-> num],
                kuwahara(raw_pixels, width, height, num, checked, alloc_ok))

(* kuwahara followed iteration by iteration, for num below both         *)
(* dimensions (the other values of num end before pass 1, see kuwahara). *)

\* The call up to the first loop: the copy and the zeroed work_pixels.
KuwaharaEnter ==
    /\ status = "ready"
    /\ \E num \in 0..MaxNum :
         /\ num < width /\ num < height
         /\ call' = [op |-> "kuwahara", num |-> num]
         /\ work_pixels' = NewWorkPixels(width - num, height - num)
    /\ status' = "pass1"
    /\ img' = DynImageFromRaw(raw_pixels)
    /\ pos' = 0
    /\ UNCHANGED <<width, height, raw_pixels, orig, panic, ret, reads>>

\* One iteration of the loop of pass 1.
Pass1Step ==
    /\ status = "pass1"
    /\ ~Pass1Done(pos, width - call.num, height - call.num)
    /\ LET at == ImageIterator(width - call.num, height - call.num)[pos + 1]
       IN work_pixels' =
              [work_pixels EXCEPT
                  ![work_pixel_at(at[1], at[2], width, call.num)] =
                      Pass1Entry(img, width, at[1], at[2], call.num)]
    /\ pos' = pos + 1
    /\ UNCHANGED <<width, height, raw_pixels, orig, call, status, panic, img,
                   ret, reads>>

\* The loop of pass 1 ends and the loop of pass 2 begins.
Pass1End ==
    /\ status = "pass1"
    /\ Pass1Done(pos, width - call.num, height - call.num)
    /\ status' = "pass2"
    /\ pos' = 0
    /\ UNCHANGED <<width, height, raw_pixels, orig, call, panic, img, ret,
                   reads, work_pixels>>

\* One iteration of the loop of pass 2: it writes its pixel, or panics
\* in `expect`.
Pass2Step ==
    /\ status = "pass2"
    /\ pos < width * height
    /\ LET at == ImageIterator(width, height)[pos + 1]
           pixel == Choose(work_pixels, width, at[1], at[2], call.num,
                           width - call.num, height - call.num)
           px == GetPixel(img, width, at[1], at[2])
       IN IF pixel = None
          THEN /\ status' = "panicked"
               /\ panic' = "unable to choose pixel"
               /\ UNCHANGED <<img, pos>>
          ELSE /\ img' = PutPixel(img, width, at[1], at[2],
                                  <<pixel[1], pixel[2], pixel[3], px[4]>>)
               /\ pos' = pos + 1
               /\ UNCHANGED <<status, panic>>
    /\ UNCHANGED <<width, height, raw_pixels, orig, call, ret, reads,
                   work_pixels>>

\* After pass 2 the copy becomes the caller's raw_pixels.
KuwaharaReturn ==
    /\ status = "pass2"
    /\ pos = width * height
    /\ raw_pixels' = img
    /\ status' = "returned"
    /\ UNCHANGED <<width, height, orig, call, panic, img, ret, reads,
                   work_pixels, pos>>

Next ==
    \/ Solarize
    \/ SolarizeRetimg
    \/ IncBrightness
    \/ Primary
    \/ Halftone
    \/ HorizontalStrips
    \/ VerticalStrips
    \/ Offset
    \/ MultipleOffsets
    \/ Kuwahara

Spec == Init /\ [][Next]_vars

\* The strip overlays alone, on the strip family.
InitStrips == \E im \in StripImages : Start(im)

NextStrips ==
    \/ HorizontalStrips
    \/ VerticalStrips

SpecStrips == InitStrips /\ [][NextStrips]_vars

\* offset alone, on the images with an interior.
InitOffset == \E im \in BigImages : Start(im)

NextOffset == OffsetWide

SpecOffset == InitOffset /\ [][NextOffset]_vars

\* tint alone, on its images.
InitTint == \E im \in TintImages : Start(im)

NextTint == Tint

SpecTint == InitTint /\ [][NextTint]_vars

\* kuwahara iteration by iteration, on images of 2 or 3 pixels a side.
PassImages == ImagesOf((2..3) \X (2..3))

InitPasses == \E im \in PassImages : Start(im)

NextPasses ==
    \/ KuwaharaEnter
    \/ Pass1Step
    \/ Pass1End
    \/ Pass2Step
    \/ KuwaharaReturn

SpecPasses == InitPasses /\ [][NextPasses]_vars

(* ------------------------------ claims -------------------------------- *)

\* The pixel coordinates of the image.
Pixels == (0..(width - 1)) \X (0..(height - 1))

\* The colour channels <<r, g, b>> of a pixel.
Rgb(px) == <<px[1], px[2], px[3]>>

KuwaharaReturned == call.op = "kuwahara" /\ status = "returned"

\* The anchors of the four candidates of pixel (x, y), in the order
\* top-left, top-right, bottom-left, bottom-right.
C1_Anchors(x, y, num) ==
    <<<<x - num, y - num>>, <<x, y - num>>, <<x - num, y>>, <<x, y>>>>

\* A candidate is valid when its anchor has a stored statistic.
C1_Valid(a, num) ==
    a[1] >= 0 /\ a[1] < width - num /\ a[2] >= 0 /\ a[2] < height - num

\* The statistic stored for anchor a, from the image before the call.
C1_Stat(a, num) ==
    LET avg == calc_avg(orig, width, a[1], a[2], num)
    IN <<avg[1], avg[2], avg[3], calc_var(orig, width, a[1], a[2], num, avg)>>

\* The valid candidates of minimal variance that no valid candidate of the
\* same variance precedes.
C1_Best(x, y, num) ==
    LET an == C1_Anchors(x, y, num)
        V == {i \in 1..4 : C1_Valid(an[i], num)}
    IN {i \in V : \A j \in V :
            /\ C1_Stat(an[i], num)[4] <= C1_Stat(an[j], num)[4]
            /\ (j < i => C1_Stat(an[j], num)[4] # C1_Stat(an[i], num)[4])}

\* C1: every pixel kuwahara rewrites holds the stored mean of its valid
\* candidate of minimal variance, the first one in the order top-left,
\* top-right, bottom-left, bottom-right when several share the minimum.
C1_MinVarianceFirst ==
    KuwaharaReturned =>
        \A p \in Pixels :
            LET best == C1_Best(p[1], p[2], call.num)
                an == C1_Anchors(p[1], p[2], call.num)
            IN /\ Cardinality(best) = 1
               /\ \A i \in best :
                    Rgb(GetPixel(raw_pixels, width, p[1], p[2])) =
                    Rgb(C1_Stat(an[i], call.num))

\* C1 witness: kuwahara returned and some pixel had two valid candidates
\* tied at the minimal variance with different means.
C1_Witness ==
    /\ KuwaharaReturned
    /\ \E p \in Pixels :
         LET an == C1_Anchors(p[1], p[2], call.num)
             V == {i \in 1..4 : C1_Valid(an[i], call.num)}
         IN \E i \in C1_Best(p[1], p[2], call.num) : \E j \in V :
              /\ j > i
              /\ C1_Stat(an[j], call.num)[4] = C1_Stat(an[i], call.num)[4]
              /\ Rgb(C1_Stat(an[j], call.num)) # Rgb(C1_Stat(an[i], call.num))

\* C2 (as claimed): with width > num and height > num every pixel has a
\* valid candidate, so kuwahara never reaches "unable to choose pixel".
C2_AlwaysACandidate ==
    (call.op = "kuwahara" /\ width > call.num /\ height > call.num) =>
        /\ panic # "unable to choose pixel"
        /\ \A p \in Pixels :
             \E i \in 1..4 : C1_Valid(C1_Anchors(p[1], p[2], call.num)[i], call.num)

\* C3: kuwahara with num = 0 returns with every byte of the buffer as it
\* was before the call.
C3_NumZeroIdentity ==
    (call.op = "kuwahara" /\ call.num = 0) =>
        status = "returned" /\ raw_pixels = orig

\* C3 witness: kuwahara with num = 0 has run on an image of two colours.
C3_Witness ==
    /\ KuwaharaReturned
    /\ call.num = 0
    /\ \E p \in Pixels, q \in Pixels :
         GetPixel(orig, width, p[1], p[2]) # GetPixel(orig, width, q[1], q[2])

\* min(255, v + d).
SatAdd(v, d) == IF v + d > 255 THEN 255 ELSE v + d

\* C4 (as claimed): after inc_brightness(img, d) every pixel, the first
\* and the last included, has r, g, b = min(255, old + d) and its alpha.
C4_BrightnessEveryPixel ==
    (call.op = "inc_brightness" /\ status = "returned") =>
        \A p \in Pixels :
            LET old == GetPixel(orig, width, p[1], p[2])
            IN GetPixel(raw_pixels, width, p[1], p[2]) =
               <<SatAdd(old[1], call.brightness), SatAdd(old[2], call.brightness),
                 SatAdd(old[3], call.brightness), old[4]>>

\* The call was given an invalid parameter.
C5_InvalidParameter ==
    \/ call.op = "offset" /\ call.channel_index > 2
    \/ call.op = "multiple_offsets"
         /\ (call.channel_index > 2 \/ call.channel_index2 > 2)
    \/ call.op = "kuwahara" /\ (call.num >= width \/ call.num >= height)

\* C5: a call given an invalid parameter aborts, and the caller's buffer
\* is then byte for byte what it was before the call.
C5_AbortBeforeMutation ==
    C5_InvalidParameter => status = "panicked" /\ raw_pixels = orig

\* C5 witness: multiple_offsets was given a valid first and an invalid
\* second channel on an image it would otherwise have changed.
C5_Witness ==
    /\ call.op = "multiple_offsets"
    /\ call.channel_index <= 2
    /\ call.channel_index2 > 2
    /\ status = "panicked"
    /\ multiple_offsets(orig, width, height, call.offset, call.channel_index, 0).raw_pixels
         # orig

\* C6 (as claimed): every coordinate halftone reads lies inside the image.
C6_HalftoneReadsInBounds ==
    call.op = "halftone" =>
        \A r \in reads : r[1] < width /\ r[2] < height

\* The red channel after solarizing.
C7_Red(r) == IF r < 200 THEN 200 - r ELSE r

\* The buffer with every pixel solarized.
C7_Solarized(buf) ==
    [i \in DOMAIN buf |-> IF (i - 1) % 4 = 0 THEN C7_Red(buf[i]) ELSE buf[i]]

\* C7 (as claimed): solarize and solarize_retimg compute the same buffer,
\* every pixel solarized, and solarize_retimg leaves its source as it was.
C7_SolarizeVariantsAgree ==
    /\ (call.op = "solarize" /\ status = "returned") =>
          raw_pixels = C7_Solarized(orig)
    /\ (call.op = "solarize_retimg" /\ status = "returned") =>
          ret.raw_pixels = C7_Solarized(orig) /\ raw_pixels = orig

\* C8 (as claimed): after primary every colour byte of a pixel the scan
\* writes is 255 when that channel of the first pixel exceeded 128 and 0
\* otherwise; alpha bytes are unchanged.
C8_PrimaryQuantizes ==
    (call.op = "primary" /\ status = "returned") =>
        \A n \in 0..(NumPixels(orig) - 2) :
            /\ \A c \in 0..2 :
                 raw_pixels[4 * n + c + 1] = (IF orig[c + 1] > 128 THEN 255 ELSE 0)
            /\ raw_pixels[4 * n + 4] = orig[4 * n + 4]

\* 1000 times the luma of the pixel (x, y) of the image before the call.
C9_Luma(x, y) ==
    299 * Chan(orig, width, x, y, 0) + 587 * Chan(orig, width, x, y, 1)
        + 114 * Chan(orig, width, x, y, 2)

\* The average luma of the block at (bx, by) exceeds 95.
C9_Bright(bx, by) ==
    C9_Luma(bx, by) + C9_Luma(bx, by + 1) + C9_Luma(bx + 1, by)
        + C9_Luma(bx + 1, by + 1) > 4 * 95 * 1000

\* C9: on an image of even width and height, in the buffer halftone holds
\* when it finishes the top-left pixel of each 2x2 block is white when the
\* block's average luma exceeded 95 and black otherwise, with its alpha,
\* and the other three pixels of each block are as before.
C9_HalftoneTopLeftOnly ==
    (call.op = "halftone" /\ width % 2 = 0 /\ height % 2 = 0) =>
        /\ status = "returned"
        /\ \A p \in Pixels :
             LET old == GetPixel(orig, width, p[1], p[2])
                 v == IF C9_Bright(p[1], p[2]) THEN 255 ELSE 0
             IN GetPixel(img, width, p[1], p[2]) =
                IF p[1] % 2 = 0 /\ p[2] % 2 = 0 THEN <<v, v, v, old[4]>> ELSE old

\* C9 witness: halftone finished on an image of two blocks, one painted
\* white and one painted black, each changing its top-left pixel.
C9_Witness ==
    /\ call.op = "halftone"
    /\ status = "returned"
    /\ width % 2 = 0 /\ height % 2 = 0
    /\ \E p \in Pixels, q \in Pixels :
         /\ p[1] % 2 = 0 /\ p[2] % 2 = 0 /\ q[1] % 2 = 0 /\ q[2] % 2 = 0
         /\ Rgb(GetPixel(img, width, p[1], p[2])) = <<255, 255, 255>>
         /\ Rgb(GetPixel(orig, width, p[1], p[2])) # <<255, 255, 255>>
         /\ Rgb(GetPixel(img, width, q[1], q[2])) = <<0, 0, 0>>
         /\ Rgb(GetPixel(orig, width, q[1], q[2])) # <<0, 0, 0>>

\* The strip overlay call and its axis: extent and index along it.
C10_IsStrips == call.op \in {"horizontal_strips", "vertical_strips"}
C10_Extent == IF call.op = "horizontal_strips" THEN height ELSE width
C10_Along(p) == IF call.op = "horizontal_strips" THEN p[2] ELSE p[1]

\* The band size floor(extent / (2n - 1)).
C10_Band == C10_Extent \div (2 * call.num_strips - 1)

\* Index k lies in one of the bands 1, 3, ..., 2n - 3.
C10_InWhiteBand(k) ==
    \E j \in 1..(call.num_strips - 1) :
        k >= (2 * j - 1) * C10_Band /\ k < 2 * j * C10_Band

\* C10: for 1 <= n <= 127 and band size s >= 1 the overlay returns with
\* exactly the pixels of the bands [(2j-1)s, 2js), j in 1..n-1, opaque
\* white and every other pixel, the remainder beyond (2n-1)s included, as
\* before; n = 1 leaves the image as it was.
C10_StripsPaintOddBands ==
    (C10_IsStrips /\ call.num_strips >= 1 /\ C10_Band >= 1) =>
        /\ status = "returned"
        /\ \A p \in Pixels :
             GetPixel(raw_pixels, width, p[1], p[2]) =
                IF C10_InWhiteBand(C10_Along(p)) THEN <<255, 255, 255, 255>>
                ELSE GetPixel(orig, width, p[1], p[2])
        /\ call.num_strips = 1 => raw_pixels = orig

\* C10 witness: an overlay of three strips returned on an image with two
\* white bands and a remainder beyond the last band.
C10_Witness ==
    /\ C10_IsStrips
    /\ status = "returned"
    /\ call.num_strips = 3
    /\ C10_Band >= 1
    /\ C10_Extent > 5 * C10_Band
    /\ raw_pixels # orig

\* The out-of-place result of offset on the image before the call:
\* channel c of the pixels of the scanned region whose source lies inside
\* the margin is read from the source, everything else is kept.
C11_Expected(c, off) ==
    [i \in 1..Len(orig) |->
        LET x == ((i - 1) \div 4) % width
            y == ((i - 1) \div 4) \div width
        IN IF (i - 1) % 4 = c /\ x < width - 10 /\ y < height - 10
              /\ x + off < width - 1 /\ y + off < height - 1
           THEN Chan(orig, width, x + off, y + off, c)
           ELSE orig[i]]

\* C11: on an image at least 10 wide and high, offset with a valid channel
\* and any offset returns the out-of-place result computed from the
\* image before the call.
C11_OffsetOutOfPlace ==
    (/\ call.op = "offset"
     /\ width >= 10 /\ height >= 10
     /\ call.channel_index <= 2)
        => /\ status = "returned"
           /\ raw_pixels = C11_Expected(call.channel_index, call.offset)

\* C12: multiple_offsets with two different valid channels decides them
\* independently at every pixel (x, y): channel c1 is channel c1 of pixel
\* (x+offset, y) exactly when x+offset < width, channel c2 is channel c2
\* of pixel (x-offset, y) (as it was before the call or as it is after
\* it) exactly when x > offset and y > offset, and a channel whose
\* condition is false keeps its value.
C12_ChannelsIndependent ==
    (/\ call.op = "multiple_offsets"
     /\ call.channel_index <= 2 /\ call.channel_index2 <= 2
     /\ call.channel_index # call.channel_index2)
        => /\ status = "returned"
           /\ \A p \in Pixels :
                LET x == p[1]
                    y == p[2]
                    off == call.offset
                    c1 == call.channel_index
                    c2 == call.channel_index2
                IN /\ Chan(raw_pixels, width, x, y, c1) =
                        IF x + off < width
                        THEN Chan(orig, width, x + off, y, c1)
                        ELSE Chan(orig, width, x, y, c1)
                   /\ IF x > off /\ y > off
                      THEN Chan(raw_pixels, width, x, y, c2) \in
                               {Chan(orig, width, x - off, y, c2),
                                Chan(raw_pixels, width, x - off, y, c2)}
                      ELSE Chan(raw_pixels, width, x, y, c2) =
                               Chan(orig, width, x, y, c2)

\* Channel val after adding off with saturation at 255.
C13_Saturated(val, off) == IF val + off >= 255 THEN 255 ELSE val + off

\* C13: tint with any u32 offsets returns with every pixel's R, G and B
\* equal to 255 when the old value plus its offset is at least 255 and to
\* the old value plus the offset otherwise, and with alpha unchanged.
C13_TintSaturates ==
    call.op = "tint"
        => /\ status = "returned"
           /\ \A p \in Pixels :
                LET old == GetPixel(orig, width, p[1], p[2])
                IN GetPixel(raw_pixels, width, p[1], p[2]) =
                       <<C13_Saturated(old[1], call.r_offset),
                         C13_Saturated(old[2], call.g_offset),
                         C13_Saturated(old[3], call.b_offset),
                         old[4]>>

\* The pixel kuwahara gives (x, y), from the image before the call and
\* num alone: the means of the candidate chosen among the statistics of
\* that image, and the pixel's own alpha.
C14_Out(x, y, num) ==
    LET best == Choose(Pass1(orig, width, height, num), width, x, y, num,
                       width - num, height - num)
    IN <<best[1], best[2], best[3], Chan(orig, width, x, y, 3)>>

\* The image in which the first n pixels of the scan of pass 2 are
\* those of C14_Out and the others those before the call.
C14_Written(n, num) ==
    [i \in 1..Len(orig) |->
        LET p == (i - 1) \div 4
        IN IF p < n
           THEN C14_Out(p % width, p \div width, num)[((i - 1) % 4) + 1]
           ELSE orig[i]]

\* C14: in kuwahara, while pass 1 runs no pixel has been written and
\* every entry stored so far is the statistic of the unmodified input;
\* from the start of pass 2 on the statistics buffer is complete and
\* never changes; every pixel pass 2 has written depends on the input
\* image and num alone, whatever was written before it, and so does the
\* image returned.
C14_PassBarrier ==
    call.op = "kuwahara" =>
        LET num == call.num
            wd == width - num
            hd == height - num
            full == Pass1(orig, width, height, num)
        IN /\ status = "pass1" =>
                /\ img = orig /\ raw_pixels = orig
                /\ \A n \in 0..(wd * hd - 1) :
                     work_pixels[n] = IF n < pos THEN full[n] ELSE <<0, 0, 0, 0>>
           /\ status \in {"pass2", "panicked", "returned"} =>
                work_pixels = full
           /\ status \in {"pass2", "panicked"} =>
                /\ img = C14_Written(pos, num)
                /\ raw_pixels = orig
           /\ status = "returned" =>
                raw_pixels = C14_Written(width * height, num)

\* Pass 2 is under way with num >= 1: it has written a pixel that
\* changed and has pixels left to write.
C14_Witness ==
    /\ call.op = "kuwahara" /\ call.num >= 1
    /\ status = "pass2"
    /\ pos > 0 /\ pos < width * height
    /\ img # orig
====
